---------------------------- MODULE Spec2Model ----------------------------
(***************************************************************************)
(* Model of src/src/evaluation/eval_model.py: eval_metric(true, pred) and  *)
(* its helpers _mape and _smape, with the numpy / sklearn.metrics calls    *)
(* they make modelled by what those calls compute.                         *)
(*                                                                         *)
(* Numbers.  A float is a record: [k |-> "fin", n, d] is the rational n/d  *)
(* in lowest terms (d > 0), [k |-> "nan"] is NaN, [k |-> "inf", s] is      *)
(* s * Infinity (s = 1 or -1).  A square root of a rational that is not a  *)
(* perfect square is kept as [k |-> "sqrt", n, d]; a mean of squared       *)
(* logarithm differences that is not 0 is kept as [k |-> "msle", terms],   *)
(* terms the sequence of <<1 + true_i, 1 + pred_i>>, and its square root   *)
(* as [k |-> "rmsle", terms].  Finite arithmetic is exact; rounding of     *)
(* float64 is not modelled.                                                *)
(***************************************************************************)
EXTENDS Integers, Sequences, FiniteSets, TLC

\* Longest array the callers pass, and largest sample value (samples are
\* the integers -1 .. MaxVal).
MaxLen == 2
MaxVal == 2

Vals == -1 .. MaxVal
Arrays == UNION {[1 .. n -> Vals] : n \in 0 .. MaxLen}

\* The same two bounds for the interleaved calls, whose state space is the
\* product of the callers' positions.
ConcMaxLen == 2
ConcMaxVal == 1
ConcArrays == UNION {[1 .. n -> -1 .. ConcMaxVal] : n \in 0 .. ConcMaxLen}

Callers == {"c1", "c2"}

VARIABLES
    true,   \* the array passed as `true`  (shared by the callers)
    pred,   \* the array passed as `pred`
    true0,  \* history: the arrays as they were passed
    pred0,
    pc,     \* pc[c]: position of caller c's call of eval_metric
    loc,    \* loc[c]: the local variables of caller c's call
    ret     \* ret[c]: what the call returned or raised

vars == <<true, pred, true0, pred0, pc, loc, ret>>

---------------------------------------------------------------------------
\* float64 values and arithmetic (numpy semantics for zero division)

IAbs(x) == IF x < 0 THEN -x ELSE x

RECURSIVE Gcd(_, _)
Gcd(a, b) == IF b = 0 THEN a ELSE Gcd(b, a % b)

Fin(n, d) ==
    LET s == IF d < 0 THEN -1 ELSE 1
        g == Gcd(IAbs(n), IAbs(d))
    IN  [k |-> "fin", n |-> (s * n) \div g, d |-> (s * d) \div g]

F(x) == Fin(x, 1)
NaN == [k |-> "nan"]
Inf(s) == [k |-> "inf", s |-> s]

IsFin(a) == a.k = "fin"
IsNaN(a) == a.k = "nan"
IsInf(a) == a.k = "inf"
IsZero(a) == IsFin(a) /\ a.n = 0
\* sign of a non-NaN value (+0 counts as positive: the zeros here are +0)
Sgn(a) == IF IsInf(a) THEN a.s ELSE IF a.n < 0 THEN -1 ELSE 1

FNeg(a) ==
    IF IsNaN(a) THEN NaN
    ELSE IF IsInf(a) THEN Inf(-a.s)
    ELSE Fin(-a.n, a.d)

FAbs(a) ==
    IF IsNaN(a) THEN NaN
    ELSE IF IsInf(a) THEN Inf(1)
    ELSE Fin(IAbs(a.n), a.d)

FAdd(a, b) ==
    IF IsNaN(a) \/ IsNaN(b) THEN NaN
    ELSE IF IsInf(a) /\ IsInf(b) THEN (IF a.s = b.s THEN a ELSE NaN)
    ELSE IF IsInf(a) THEN a
    ELSE IF IsInf(b) THEN b
    ELSE Fin(a.n * b.d + b.n * a.d, a.d * b.d)

FSub(a, b) == FAdd(a, FNeg(b))

FMul(a, b) ==
    IF IsNaN(a) \/ IsNaN(b) THEN NaN
    ELSE IF IsInf(a) \/ IsInf(b)
         THEN (IF IsZero(a) \/ IsZero(b) THEN NaN ELSE Inf(Sgn(a) * Sgn(b)))
    ELSE Fin(a.n * b.n, a.d * b.d)

\* x / 0 is +-inf, 0 / 0 is nan (a RuntimeWarning, never an exception)
FDiv(a, b) ==
    IF IsNaN(a) \/ IsNaN(b) THEN NaN
    ELSE IF IsInf(a) THEN (IF IsInf(b) THEN NaN ELSE Inf(Sgn(a) * Sgn(b)))
    ELSE IF IsInf(b) THEN F(0)
    ELSE IF b.n = 0 THEN (IF a.n = 0 THEN NaN ELSE Inf(Sgn(a)))
    ELSE Fin(a.n * b.d, a.d * b.n)

\* the integer r >= 0 with r * r = x, or -1 when x is no perfect square
RECURSIVE IRootFrom(_, _)
IRootFrom(x, r) ==
    IF r * r = x THEN r
    ELSE IF r * r > x THEN -1
    ELSE IRootFrom(x, r + 1)

\* np.sqrt
FSqrt(a) ==
    IF IsNaN(a) THEN NaN
    ELSE IF IsInf(a) THEN (IF a.s = 1 THEN a ELSE NaN)
    ELSE IF a.k = "msle" THEN [k |-> "rmsle", terms |-> a.terms]
    ELSE IF a.n < 0 THEN NaN
    ELSE LET rn == IRootFrom(a.n, 0)
             rd == IRootFrom(a.d, 0)
         IN  IF rn >= 0 /\ rd >= 0 THEN Fin(rn, rd)
             ELSE [k |-> "sqrt", n |-> a.n, d |-> a.d]

---------------------------------------------------------------------------
\* numpy arrays: sequences, operated on elementwise

\* np.sum: left-to-right sum of the elements (0.0 for an empty array)
RECURSIVE NpSum(_)
NpSum(a) == IF Len(a) = 0 THEN F(0) ELSE FAdd(NpSum(SubSeq(a, 1, Len(a) - 1)), a[Len(a)])

\* np.mean / np.average: the sum divided by the number of elements
NpMean(a) == FDiv(NpSum(a), F(Len(a)))

\* a[mask]: a new array holding the elements of a selected by the mask
RECURSIVE Select(_, _)
Select(a, mask) ==
    IF Len(a) = 0 THEN << >>
    ELSE LET rest == Select(SubSeq(a, 1, Len(a) - 1), SubSeq(mask, 1, Len(a) - 1))
         IN  IF mask[Len(a)] THEN Append(rest, a[Len(a)]) ELSE rest

\* mask.sum(): the number of True entries
RECURSIVE CountTrue(_)
CountTrue(mask) ==
    IF Len(mask) = 0 THEN 0
    ELSE CountTrue(SubSeq(mask, 1, Len(mask) - 1)) + (IF mask[Len(mask)] THEN 1 ELSE 0)

---------------------------------------------------------------------------
\* sklearn.metrics, as eval_metric calls them

RaiseOf(type, msg) == [k |-> "raise", type |-> type, msg |-> msg]
Raise(msg) == RaiseOf("ValueError", msg)
IsRaise(v) == v.k = "raise"

InconsistentLength == "Found input variables with inconsistent numbers of samples"
ZeroSamples == "Found array with 0 sample(s) while a minimum of 1 is required"
NegativeTargets == "Mean Squared Logarithmic Error cannot be used when targets contain negative values"

\* mutant: the emptiness check made before the length check
CheckRegTargets_EmptyFirst(t, p) ==
    IF Len(t) = 0 \/ Len(p) = 0 THEN Raise(ZeroSamples)
    ELSE IF Len(t) # Len(p) THEN Raise(InconsistentLength)
    ELSE [k |-> "ok"]

\* mutant: no minimum number of samples required
CheckRegTargets_NoMinimum(t, p) ==
    IF Len(t) # Len(p) THEN Raise(InconsistentLength)
    ELSE [k |-> "ok"]

\* _check_reg_targets: check_consistent_length, then check_array on each
\* argument; [k |-> "ok"] when both pass
CheckRegTargets(t, p) ==
    IF Len(t) # Len(p) THEN Raise(InconsistentLength)
    ELSE IF Len(t) = 0 THEN Raise(ZeroSamples)
    ELSE [k |-> "ok"]

SqErr(t, p) == [i \in 1 .. Len(t) |-> FMul(FSub(F(t[i]), F(p[i])), FSub(F(t[i]), F(p[i])))]

\* mutant: the quotient taken also when the denominator is zero
r2_score_Quotient(t, p) ==
    LET chk == CheckRegTargets(t, p)
        avg == NpMean([i \in 1 .. Len(t) |-> F(t[i])])
        numerator == NpSum(SqErr(t, p))
        denominator == NpSum([i \in 1 .. Len(t) |->
                          FMul(FSub(F(t[i]), avg), FSub(F(t[i]), avg))])
    IN  IF IsRaise(chk) THEN chk
        ELSE IF Len(p) < 2 THEN NaN
        ELSE FSub(F(1), FDiv(numerator, denominator))

\* r2_score: nan for fewer than two samples; with a zero denominator the
\* score is set to 1 (zero numerator) or 0, never to a quotient
r2_score(t, p) ==
    LET chk == CheckRegTargets(t, p)
        avg == NpMean([i \in 1 .. Len(t) |-> F(t[i])])
        numerator == NpSum(SqErr(t, p))
        denominator == NpSum([i \in 1 .. Len(t) |->
                          FMul(FSub(F(t[i]), avg), FSub(F(t[i]), avg))])
    IN  IF IsRaise(chk) THEN chk
        ELSE IF Len(p) < 2 THEN NaN
        ELSE IF ~IsZero(denominator) THEN FSub(F(1), FDiv(numerator, denominator))
        ELSE IF ~IsZero(numerator) THEN F(0)
        ELSE F(1)

mean_absolute_error(t, p) ==
    LET chk == CheckRegTargets(t, p)
    IN  IF IsRaise(chk) THEN chk
        ELSE NpMean([i \in 1 .. Len(t) |-> FAbs(FSub(F(p[i]), F(t[i])))])

\* mutant: the squared flag ignored, the root never taken
mean_squared_error_NoRoot(t, p, squared) ==
    LET chk == CheckRegTargets(t, p)
    IN  IF IsRaise(chk) THEN chk ELSE NpMean(SqErr(t, p))

\* mean_squared_error(true, pred, squared=...)
mean_squared_error(t, p, squared) ==
    LET chk == CheckRegTargets(t, p)
        mse == NpMean(SqErr(t, p))
    IN  IF IsRaise(chk) THEN chk
        ELSE IF squared THEN mse ELSE FSqrt(mse)

\* mean_squared_log_error: mean_squared_error(log1p(true), log1p(pred));
\* raises when an argument holds a negative value
mean_squared_log_error(t, p) ==
    LET chk == CheckRegTargets(t, p)
    IN  IF IsRaise(chk) THEN chk
        ELSE IF \E i \in 1 .. Len(t) : t[i] < 0 \/ p[i] < 0 THEN Raise(NegativeTargets)
        ELSE IF \A i \in 1 .. Len(t) : t[i] = p[i] THEN F(0)
        ELSE [k |-> "msle", terms |-> [i \in 1 .. Len(t) |-> <<1 + t[i], 1 + p[i]>>]]

---------------------------------------------------------------------------
\* eval_model.py

\* mutant: the samples with a zero truth left out of the mean
mape_SkipZeroTruth(t, p) ==
    LET keep == [i \in 1 .. Len(t) |-> t[i] # 0]
        tt == Select(t, keep)
        pp == Select(p, keep)
    IN  FMul(NpMean([i \in 1 .. Len(tt) |->
                       FAbs(FDiv(FSub(F(tt[i]), F(pp[i])), F(tt[i])))]),
             F(100))

\* np.mean(np.abs((true - pred) / true)) * 100
mape(t, p) ==
    FMul(NpMean([i \in 1 .. Len(t) |-> FAbs(FDiv(FSub(F(t[i]), F(p[i])), F(t[i])))]),
         F(100))

\* 100/len(true) * np.sum(2 * np.abs(pred - true) / (np.abs(pred) + np.abs(true)));
\* 100/len(true) divides Python numbers: ZeroDivisionError when len(true) is 0
smape(t, p) ==
    IF Len(t) = 0 THEN RaiseOf("ZeroDivisionError", "division by zero")
    ELSE FMul(Fin(100, Len(t)),
              NpSum([i \in 1 .. Len(t) |->
                       FDiv(FMul(F(2), FAbs(FSub(F(p[i]), F(t[i])))),
                            FAdd(FAbs(F(p[i])), FAbs(F(t[i]))))]))

\* mutant: | for &
rmsle_sample_Or(t, p) == [i \in 1 .. Len(t) |-> t[i] >= 0 \/ p[i] >= 0]

\* mutant: > for >=
rmsle_sample_Strict(t, p) == [i \in 1 .. Len(t) |-> t[i] > 0 /\ p[i] > 0]

\* (true >= 0) & (pred >= 0)
rmsle_sample(t, p) == [i \in 1 .. Len(t) |-> t[i] >= 0 /\ p[i] >= 0]

\* mutant: the guard against an empty selection left out
rmsle_of_NoGuard(t, p, mask) ==
    LET msle == mean_squared_log_error(Select(t, mask), Select(p, mask))
    IN  IF IsRaise(msle) THEN msle ELSE FSqrt(msle)

\* lines 73-80: the RMSLE of the selected samples, NaN when none is selected
rmsle_of(t, p, mask) ==
    IF CountTrue(mask) # 0
    THEN LET msle == mean_squared_log_error(Select(t, mask), Select(p, mask))
         IN  IF IsRaise(msle) THEN msle ELSE FSqrt(msle)
    ELSE NaN

Columns == <<"R2", "MAE", "MSE", "RMSE", "RMSLE", "MAPE", "SMAPE">>

\* mutant: the columns whose value is NaN dropped
DataFrame_DropNaN(row, columns) ==
    LET keep == [i \in 1 .. Len(row) |-> row[i].k # "nan"]
    IN  [k |-> "frame", columns |-> Select(columns, keep), row |-> Select(row, keep)]

\* pd.DataFrame([[...]], columns=[...]): one row under the seven columns
DataFrame(row, columns) == [k |-> "frame", columns |-> columns, row |-> row]

\* eval_metric as one call: the DataFrame it returns or the exception it raises
eval_metric(t, p) ==
    LET r2 == r2_score(t, p)
        mae == mean_absolute_error(t, p)
        mse == mean_squared_error(t, p, TRUE)
        rmse == mean_squared_error(t, p, FALSE)
        rmsle == rmsle_of(t, p, rmsle_sample(t, p))
        smape_ == smape(t, p)
    IN  IF IsRaise(r2) THEN r2
        ELSE IF IsRaise(rmsle) THEN rmsle
        ELSE IF IsRaise(smape_) THEN smape_
        ELSE DataFrame(<<r2, mae, mse, rmse, rmsle, mape(t, p), smape_>>, Columns)

---------------------------------------------------------------------------
\* The calls.  The callers pass the same two arrays.

NoLocals == [k |-> "none"]
NoReturn == [k |-> "none"]

Start ==
    /\ true0 = true
    /\ pred0 = pred
    /\ pc = [c \in Callers |-> "start"]
    /\ loc = [c \in Callers |-> NoLocals]
    /\ ret = [c \in Callers |-> NoReturn]

Init ==
    /\ true \in Arrays
    /\ pred \in Arrays
    /\ Start

\* a whole call of eval_metric by caller c
Call(c) ==
    /\ pc[c] = "start"
    /\ ret' = [ret EXCEPT ![c] = eval_metric(true, pred)]
    /\ pc' = [pc EXCEPT ![c] = IF IsRaise(ret'[c]) THEN "raised" ELSE "done"]
    /\ UNCHANGED <<true, pred, true0, pred0, loc>>

\* one call, taken as a whole
Main == CHOOSE c \in Callers : TRUE
Next == Call(Main)

Spec == Init /\ [][Next]_vars

---------------------------------------------------------------------------
\* The same call taken statement by statement, so that the calls of the two
\* callers interleave.  pc[c] names the line caller c executes next.

\* lines 61-67: r2_score raises what _check_reg_targets raises; the three
\* calls after it repeat the same checks on the same arguments
Metrics(c) ==
    /\ pc[c] = "start"
    /\ IF IsRaise(r2_score(true, pred))
       THEN /\ ret' = [ret EXCEPT ![c] = r2_score(true, pred)]
            /\ pc' = [pc EXCEPT ![c] = "raised"]
            /\ loc' = loc
       ELSE /\ loc' = [loc EXCEPT ![c] =
                         [k |-> "l70",
                          r2 |-> r2_score(true, pred),
                          mae |-> mean_absolute_error(true, pred),
                          mse |-> mean_squared_error(true, pred, TRUE),
                          rmse |-> mean_squared_error(true, pred, FALSE)]]
            /\ pc' = [pc EXCEPT ![c] = "l70"]
            /\ ret' = ret
    /\ UNCHANGED <<true, pred, true0, pred0>>

\* mutant: the arrays filtered in place
Mask_InPlace(c) ==
    /\ pc[c] = "l70"
    /\ loc' = [loc EXCEPT ![c] =
                 [k |-> "l73", r2 |-> loc[c].r2, mae |-> loc[c].mae,
                  mse |-> loc[c].mse, rmse |-> loc[c].rmse,
                  rmsle_sample |-> [i \in 1 .. CountTrue(rmsle_sample(true, pred)) |-> TRUE]]]
    /\ true' = Select(true, rmsle_sample(true, pred))
    /\ pred' = Select(pred, rmsle_sample(true, pred))
    /\ pc' = [pc EXCEPT ![c] = "l73"]
    /\ UNCHANGED <<true0, pred0, ret>>

\* line 70: the mask is a new array; true and pred are only read
Mask(c) ==
    /\ pc[c] = "l70"
    /\ loc' = [loc EXCEPT ![c] =
                 [k |-> "l73", r2 |-> loc[c].r2, mae |-> loc[c].mae,
                  mse |-> loc[c].mse, rmse |-> loc[c].rmse,
                  rmsle_sample |-> rmsle_sample(true, pred)]]
    /\ pc' = [pc EXCEPT ![c] = "l73"]
    /\ UNCHANGED <<true, pred, true0, pred0, ret>>

\* lines 73-80: true[rmsle_sample] and pred[rmsle_sample] are copies
Rmsle(c) ==
    /\ pc[c] = "l73"
    /\ LET rmsle == rmsle_of(true, pred, loc[c].rmsle_sample)
       IN  IF IsRaise(rmsle)
           THEN /\ ret' = [ret EXCEPT ![c] = rmsle]
                /\ pc' = [pc EXCEPT ![c] = "raised"]
                /\ loc' = loc
           ELSE /\ loc' = [loc EXCEPT ![c] =
                             [k |-> "l82", r2 |-> loc[c].r2, mae |-> loc[c].mae,
                              mse |-> loc[c].mse, rmse |-> loc[c].rmse,
                              rmsle |-> rmsle]]
                /\ pc' = [pc EXCEPT ![c] = "l82"]
                /\ ret' = ret
    /\ UNCHANGED <<true, pred, true0, pred0>>

\* lines 82-84
Percent(c) ==
    /\ pc[c] = "l82"
    /\ IF IsRaise(smape(true, pred))
       THEN /\ ret' = [ret EXCEPT ![c] = smape(true, pred)]
            /\ pc' = [pc EXCEPT ![c] = "raised"]
            /\ loc' = loc
       ELSE /\ loc' = [loc EXCEPT ![c] =
                         [k |-> "l86", r2 |-> loc[c].r2, mae |-> loc[c].mae,
                          mse |-> loc[c].mse, rmse |-> loc[c].rmse,
                          rmsle |-> loc[c].rmsle,
                          mape |-> mape(true, pred), smape |-> smape(true, pred)]]
            /\ pc' = [pc EXCEPT ![c] = "l86"]
            /\ ret' = ret
    /\ UNCHANGED <<true, pred, true0, pred0>>

\* lines 86-89: the locals end with the call
Return(c) ==
    /\ pc[c] = "l86"
    /\ ret' = [ret EXCEPT ![c] =
                 DataFrame(<<loc[c].r2, loc[c].mae, loc[c].mse, loc[c].rmse,
                             loc[c].rmsle, loc[c].mape, loc[c].smape>>, Columns)]
    /\ loc' = [loc EXCEPT ![c] = NoLocals]
    /\ pc' = [pc EXCEPT ![c] = "done"]
    /\ UNCHANGED <<true, pred, true0, pred0>>

NextConc ==
    \E c \in Callers :
        \/ Metrics(c)
        \/ Mask(c)
        \/ Rmsle(c)
        \/ Percent(c)
        \/ Return(c)

InitConc ==
    /\ true \in ConcArrays
    /\ pred \in ConcArrays
    /\ Start

SpecConc == InitConc /\ [][NextConc]_vars

---------------------------------------------------------------------------
\* What the claims speak of: the metrics as the specification defines them,
\* computed over index sets from the arrays as they were passed.

\* the sum of f[i] over the indices i of T
RECURSIVE SumOver(_, _)
SumOver(f, T) ==
    IF T = {} THEN F(0)
    ELSE LET i == CHOOSE j \in T : TRUE
         IN  FAdd(f[i], SumOver(f, T \ {i}))

SumF(f) == SumOver(f, DOMAIN f)

N == Len(true0)
Idx == 1 .. N
ValidInput == Len(true0) = Len(pred0) /\ N >= 1
Returned(c) == pc[c] = "done"
Ended(c) == pc[c] \in {"done", "raised"}

\* the value under column `name` of the record caller c got
Field(c, name) ==
    ret[c].row[CHOOSE j \in 1 .. Len(ret[c].columns) : ret[c].columns[j] = name]

NaNOrInf(v) == v.k \in {"nan", "inf"}
Negative(v) == v.k = "fin" /\ v.n < 0
\* v * v, also for a square root kept in symbolic form
SquareOf(v) == IF v.k = "sqrt" THEN Fin(v.n, v.d) ELSE FMul(v, v)
NonNegative(v) == v.k = "sqrt" \/ (v.k = "fin" /\ v.n >= 0)

SSres == SumF([i \in Idx |-> F((true0[i] - pred0[i]) * (true0[i] - pred0[i]))])
MeanTruth == FDiv(SumF([i \in Idx |-> F(true0[i])]), F(N))
SStot == SumF([i \in Idx |-> FMul(FSub(F(true0[i]), MeanTruth), FSub(F(true0[i]), MeanTruth))])
DefR2 == FSub(F(1), FDiv(SSres, SStot))
DefMAE == FDiv(SumF([i \in Idx |-> F(IAbs(true0[i] - pred0[i]))]), F(N))
DefMSE == FDiv(SSres, F(N))
DefMAPE ==
    FMul(Fin(100, N),
         SumF([i \in Idx |-> FAbs(FDiv(F(true0[i] - pred0[i]), F(true0[i])))]))
DefSMAPE ==
    FMul(Fin(100, N),
         SumF([i \in Idx |-> FDiv(F(2 * IAbs(pred0[i] - true0[i])),
                                  F(IAbs(pred0[i]) + IAbs(true0[i])))]))

\* the RMSLE subset S, and its k-th index in increasing order
S == {i \in Idx : true0[i] >= 0 /\ pred0[i] >= 0}
Kth(k) == CHOOSE i \in S : Cardinality({j \in S : j <= i}) = k
DefRMSLE ==
    IF S = {} THEN NaN
    ELSE IF \A i \in S : true0[i] = pred0[i] THEN F(0)
    ELSE [k |-> "rmsle",
          terms |-> [k \in 1 .. Cardinality(S) |-> <<1 + true0[Kth(k)], 1 + pred0[Kth(k)]>>]]

ConstantTruth == \A i, j \in Idx : true0[i] = true0[j]
ZeroOverZero == \E i \in Idx : true0[i] = 0 /\ pred0[i] = 0
ZeroTruthOnly == \E i \in Idx : true0[i] = 0 /\ pred0[i] # 0

IsShapeMismatch(v) ==
    /\ v.k = "raise"
    /\ v.type = "ValueError"
    /\ v.msg = "Found input variables with inconsistent numbers of samples"
IsEmptyInput(v) ==
    /\ v.k = "raise"
    /\ v.type = "ValueError"
    /\ v.msg = "Found array with 0 sample(s) while a minimum of 1 is required"

\* the fields that no input makes degenerate, and those the claims agree on
PlainFields(c) ==
    /\ Field(c, "MAE") = DefMAE
    /\ Field(c, "MSE") = DefMSE
    /\ SquareOf(Field(c, "RMSE")) = DefMSE
    /\ Field(c, "RMSLE") = DefRMSLE
    /\ (S = {} => IsNaN(Field(c, "RMSLE")))
    /\ Field(c, "MAPE") = DefMAPE
    /\ ((\E i \in Idx : true0[i] = 0) <=> NaNOrInf(Field(c, "MAPE")))
    /\ Field(c, "SMAPE") = DefSMAPE
    /\ (ZeroOverZero <=> NaNOrInf(Field(c, "SMAPE")))

---------------------------------------------------------------------------
C2_RmsleOverSubset ==
    \A c \in Callers :
        (ValidInput /\ Ended(c)) =>
            /\ Returned(c)
            /\ Field(c, "RMSLE") = DefRMSLE
            /\ (S = {} <=> IsNaN(Field(c, "RMSLE")))
            /\ ((S # {} /\ \A i \in S : true0[i] = pred0[i]) => Field(c, "RMSLE") = F(0))
            /\ Field(c, "MAE") = DefMAE
            /\ Field(c, "MSE") = DefMSE
            /\ Field(c, "MAPE") = DefMAPE
            /\ Field(c, "SMAPE") = DefSMAPE

\* evaluate([-1, 2], [1, 2]): index 1 is dropped, RMSLE = 0, MAE = 1
C2_Witness ==
    \E c \in Callers :
        /\ Returned(c)
        /\ true0 = <<-1, 2>> /\ pred0 = <<1, 2>>
        /\ S = {2}
        /\ Field(c, "RMSLE") = F(0)
        /\ Field(c, "MAE") = F(1)

\* C3 as stated: with a constant truth (SS_tot = 0) R2 is NaN or +-Infinity
\* and never finite; otherwise R2 = 1 - SS_res/SS_tot.  Refuted.
C3_AsStated ==
    \A c \in Callers :
        (ValidInput /\ Returned(c)) =>
            IF IsZero(SStot) THEN NaNOrInf(Field(c, "R2"))
            ELSE Field(c, "R2") = DefR2

\* C3 amended: with a constant truth R2 is NaN when N = 1 and, when
\* N >= 2, the finite value 1 if SS_res = 0 and 0 otherwise (never
\* +-Infinity); in every other case R2 = 1 - SS_res/SS_tot.
C3_ConstantTruthR2 ==
    \A c \in Callers :
        (ValidInput /\ Returned(c)) =>
            /\ (ConstantTruth <=> IsZero(SStot))
            /\ IF ~IsZero(SStot) THEN Field(c, "R2") = DefR2
               ELSE IF N = 1 THEN IsNaN(Field(c, "R2"))
               ELSE IF IsZero(SSres) THEN Field(c, "R2") = F(1)
               ELSE Field(c, "R2") = F(0)

C3_Witness ==
    \E c \in Callers :
        /\ Returned(c) /\ N >= 2 /\ ConstantTruth
        /\ ~IsZero(SSres)
        /\ Field(c, "R2") = F(0)

\* C4: whenever the two lengths differ the call fails with the
\* inconsistent-length error (ShapeMismatch) and no record, partial or
\* whole, is produced.
C4_ShapeMismatch ==
    \A c \in Callers :
        (Len(true0) # Len(pred0) /\ pc[c] # "start") =>
            /\ pc[c] = "raised"
            /\ IsShapeMismatch(ret[c])
            /\ ret[c].k # "frame"
            /\ loc[c] = NoLocals

\* a mismatch in which one of the arrays is empty
C4_Witness ==
    \E c \in Callers :
        /\ pc[c] = "raised" /\ Len(true0) = 0 /\ Len(pred0) > 0
        /\ IsShapeMismatch(ret[c])

\* C5: with both arrays empty the call fails with the zero-samples error
\* (EmptyInput), which is not the inconsistent-length error, and returns no
\* record of NaN values.
C5_EmptyInput ==
    \A c \in Callers :
        (Len(true0) = 0 /\ Len(pred0) = 0 /\ pc[c] # "start") =>
            /\ pc[c] = "raised"
            /\ IsEmptyInput(ret[c])
            /\ ~IsShapeMismatch(ret[c])
            /\ ret[c].k # "frame"

C5_Witness ==
    \E c \in Callers :
        /\ pc[c] = "raised" /\ true0 = << >> /\ pred0 = << >>
        /\ IsEmptyInput(ret[c])

\* what C6 says of MAPE and SMAPE apart from the infinite case
C6_Common(c) ==
    /\ Returned(c)
    /\ Field(c, "MAPE") = DefMAPE
    /\ Field(c, "SMAPE") = DefSMAPE
    /\ (ZeroOverZero => IsNaN(Field(c, "MAPE")) /\ IsNaN(Field(c, "SMAPE")))

\* C6 as stated: MAPE and SMAPE run over all N samples with no zero
\* denominator special-cased; an index with truth = pred = 0 makes both
\* NaN, and an index with truth = 0, pred # 0 makes MAPE infinite.
\* Refuted when both kinds of index occur: NaN wins.
C6_AsStated ==
    \A c \in Callers :
        (ValidInput /\ Ended(c)) =>
            /\ C6_Common(c)
            /\ (ZeroTruthOnly => IsInf(Field(c, "MAPE")))

\* C6 amended: ... and an index with truth = 0, pred # 0 makes MAPE
\* +Infinity provided no index has truth = pred = 0 (then it is NaN).
C6_NoFilterNoSpecialCase ==
    \A c \in Callers :
        (ValidInput /\ Ended(c)) =>
            /\ C6_Common(c)
            /\ ((ZeroTruthOnly /\ ~ZeroOverZero) => Field(c, "MAPE") = Inf(1))
            /\ ((ZeroTruthOnly /\ ZeroOverZero) => IsNaN(Field(c, "MAPE")))

\* evaluate([0, 0], [0, 1]): a 0/0 term and an x/0 term, both metrics NaN
C6_Witness ==
    \E c \in Callers :
        /\ Returned(c)
        /\ true0 = <<0, 0>> /\ pred0 = <<0, 1>>
        /\ ZeroOverZero /\ ZeroTruthOnly
        /\ IsNaN(Field(c, "MAPE")) /\ IsNaN(Field(c, "SMAPE"))

\* C7: for equal-length input with N >= 1 the returned record holds exactly
\* the seven keys R2, MAE, MSE, RMSE, RMSLE, MAPE, SMAPE in this order, one
\* value per key.
C7_SevenKeys ==
    \A c \in Callers :
        (ValidInput /\ Ended(c)) =>
            /\ Returned(c)
            /\ ret[c].k = "frame"
            /\ ret[c].columns = <<"R2", "MAE", "MSE", "RMSE", "RMSLE", "MAPE", "SMAPE">>
            /\ Len(ret[c].row) = 7
            /\ \A j \in 1 .. 7 : ret[c].row[j].k \in {"fin", "nan", "inf", "sqrt", "rmsle"}

\* a single sample on the NaN branch of RMSLE
C7_Witness ==
    \E c \in Callers :
        /\ Returned(c) /\ N = 1 /\ S = {}
        /\ IsNaN(ret[c].row[5])
        /\ Len(ret[c].row) = 7

\* C8: evaluate(x, x) for nonempty x >= 0 gives MAE = MSE = RMSE = RMSLE = 0,
\* MAPE = SMAPE = 0 when x has no zero, and R2 = 1 when x is not constant.
C8_PerfectPrediction ==
    \A c \in Callers :
        (ValidInput /\ Ended(c) /\ true0 = pred0 /\ \A i \in Idx : true0[i] >= 0) =>
            /\ Returned(c)
            /\ Field(c, "MAE") = F(0)
            /\ Field(c, "MSE") = F(0)
            /\ Field(c, "RMSE") = F(0)
            /\ Field(c, "RMSLE") = F(0)
            /\ ((\A i \in Idx : true0[i] # 0) =>
                    Field(c, "MAPE") = F(0) /\ Field(c, "SMAPE") = F(0))
            /\ (~ConstantTruth => Field(c, "R2") = F(1))

C8_Witness ==
    \E c \in Callers :
        /\ Returned(c) /\ true0 = pred0 /\ N >= 2
        /\ \A i \in Idx : true0[i] > 0
        /\ ~ConstantTruth
        /\ Field(c, "R2") = F(1) /\ Field(c, "MAPE") = F(0)

\* C9: MAE is the mean absolute error, MSE the mean squared error and RMSE
\* the non-negative root of that MSE; with pred = truth + d everywhere
\* MAE = |d|, MSE = d^2, RMSE = |d|; R2 < 0 whenever SS_res > SS_tot > 0.
C9_MaeMseRmse ==
    \A c \in Callers :
        (ValidInput /\ Returned(c)) =>
            /\ Field(c, "MAE") = DefMAE
            /\ Field(c, "MSE") = DefMSE
            /\ NonNegative(Field(c, "RMSE"))
            /\ SquareOf(Field(c, "RMSE")) = Field(c, "MSE")
            /\ \A d \in -(MaxVal + 1) .. (MaxVal + 1) :
                   (\A i \in Idx : pred0[i] = true0[i] + d) =>
                       /\ Field(c, "MAE") = F(IAbs(d))
                       /\ Field(c, "MSE") = F(d * d)
                       /\ Field(c, "RMSE") = F(IAbs(d))
            /\ ((~IsZero(SStot) /\ Negative(FSub(SStot, SSres))) => Negative(Field(c, "R2")))

\* evaluate([-1, 0], [1, 2]): MAE = 2, MSE = 4, RMSE = 2, R2 < 0
C9_Witness ==
    \E c \in Callers :
        /\ Returned(c)
        /\ true0 = <<-1, 0>> /\ pred0 = <<1, 2>>
        /\ Field(c, "MAE") = F(2) /\ Field(c, "MSE") = F(4) /\ Field(c, "RMSE") = F(2)
        /\ Negative(Field(c, "R2"))

\* C10: in every interleaving of the callers' calls the arrays stay as they
\* were passed, a call's locals are gone when it ends, each call ends with
\* what the call run alone gives for its inputs, and calls with equal
\* inputs return equal records.
C10_PureAndStateless ==
    /\ true = true0
    /\ pred = pred0
    /\ \A c \in Callers :
           Ended(c) =>
               /\ ret[c] = eval_metric(true0, pred0)
               /\ loc[c] = NoLocals
    /\ \A c, d \in Callers : (Ended(c) /\ Ended(d)) => ret[c] = ret[d]

\* one call has returned a record with a sample filtered out of RMSLE while
\* the other is still between its statements
C10_Witness ==
    \E c, d \in Callers :
        /\ Returned(c) /\ pc[d] = "l82"
        /\ S # {} /\ S # Idx
        /\ ret[c].k = "frame"

=============================================================================
